---- MODULE Spec2Model ----
(***************************************************************************)
(* Pointer-event state machines of the two lily widgets:                   *)
(*   MsegGraph (widgets/mseg/graph.rs)  - the multi-point curve editor     *)
(*   XyPad     (widgets/xy_pad.rs)      - the single-point two-axis pad    *)
(*                                                                         *)
(* Representation of f32 values.  Data-space x is counted in hundredths of *)
(* a second and data-space y in hundredths, so MIN_RESOLUTION = 0.01 is 1. *)
(* Pixel coordinates are whole pixels.  The widget bounds, the zoom ranges *)
(* and the pointer positions are taken on the grid on which the linear     *)
(* mappings between the two spaces are exact.                              *)
(***************************************************************************)
EXTENDS Integers, Sequences, FiniteSets, TLC

VARIABLES
    view,              \* the widget the application builds in its window
    points,            \* graph: the owner's CurvePoints, read through the lens
    range,             \* graph: the zoom range lens, <<start, end>> in halves
    active_point_id,   \* graph: Option<usize>, <<>> or <<i>>
    is_dragging_point, \* graph: bool
    on_changing_point, \* graph: TRUE iff a handler is registered
    on_remove_point,   \* graph: TRUE iff a handler is registered
    overflow_checks,   \* build: TRUE = usize overflow panics, FALSE = wraps
    panicked,          \* the handler panicked; the program is gone
    captured,          \* host: entity holding pointer capture
    point,             \* xy pad: the owner's point, read through the lens
    state,             \* xy pad: InternalState
    xy_on_changing_point, \* xy pad: TRUE iff a handler is registered
    event_queue,       \* host: InternalEvent messages emitted, not yet delivered
    edits,             \* owner: number of on_changing_point calls applied
    trip,              \* a point taken through data_to_ui and back
    last,              \* observation: the event handled last and what it did
    script             \* observation: progress of the hover-press-drag-release script

vars == <<view, points, range, active_point_id, is_dragging_point, on_changing_point,
          on_remove_point, overflow_checks, panicked, captured, point, state,
          xy_on_changing_point, event_queue, edits, trip, last, script>>

graph_vars == <<view, points, range, active_point_id, is_dragging_point,
                on_changing_point, on_remove_point, overflow_checks, edits,
                trip>>
xy_vars == <<view, trip, point, state, xy_on_changing_point, event_queue>>

----------------------------------------------------------------------------
(* Constants of the program *)

HOVER_RADIUS == 16
XY_HOVER_RADIUS == 16
MIN_RESOLUTION == 1

(* Bounds of the model *)
MaxQueue == 2
MaxMoves == 2
MaxEdits == 1

(* Instance parameters and host geometry *)
MaxDomain == 800
GraphBounds == [w |-> 800, h |-> 200]
XyBounds == [x |-> 40, y |-> 20, w |-> 400, h |-> 400]
RangeUnit == 2
DataUnit == 100

Min(a, b) == IF a <= b THEN a ELSE b
Max(a, b) == IF a >= b THEN a ELSE b

None == <<>>
Some(i) == <<i>>
is_some(o) == o # <<>>
unwrap(o) == o[1]

----------------------------------------------------------------------------
(* Coordinate mapping *)

\* variant: the mapping to the widget ignores the start of the zoom range
data_to_ui_pos_range_from_zero(p, r, max) ==
    << (p[1] * GraphBounds.w) \div (((r[2] - r[1]) * max) \div RangeUnit),
       ((DataUnit - p[2]) * GraphBounds.h) \div DataUnit >>

RangeStart(r, max) == (r[1] * max) \div RangeUnit
RangeSpan(r, max) == ((r[2] - r[1]) * max) \div RangeUnit

data_to_ui_pos_range(p, r, max) ==
    << ((p[1] - RangeStart(r, max)) * GraphBounds.w) \div RangeSpan(r, max),
       ((DataUnit - p[2]) * GraphBounds.h) \div DataUnit >>

ui_to_data_pos_range(u, r, max) ==
    << RangeStart(r, max) + (u[1] * RangeSpan(r, max)) \div GraphBounds.w,
       DataUnit - (u[2] * DataUnit) \div GraphBounds.h >>

map_data_point(p) ==
    << XyBounds.x + ((p[1] + DataUnit) * XyBounds.w) \div (2 * DataUnit),
       XyBounds.y + ((DataUnit - p[2]) * XyBounds.h) \div (2 * DataUnit) >>

map_ui_point(u) ==
    << ((u[1] - XyBounds.x) * 2 * DataUnit) \div XyBounds.w - DataUnit,
       DataUnit - ((u[2] - XyBounds.y) * 2 * DataUnit) \div XyBounds.h >>

distance_squared(a, b) ==
    (a[1] - b[1]) * (a[1] - b[1]) + (a[2] - b[2]) * (a[2] - b[2])

clamp(v, lo, hi) ==
    << Min(Max(v[1], lo[1]), hi[1]), Min(Max(v[2], lo[2]), hi[2]) >>

----------------------------------------------------------------------------
(* Host: pointer capture and usize arithmetic *)

Null == "null"
GraphEntity == "graph"
XyEntity == "xy"

capture(entity, cap) == entity
release(entity, cap) == IF cap = entity THEN Null ELSE cap

USIZE_MAX == 2147483647
\* a - b on usize with overflow checks off
wrapping_sub(a, b) == IF a >= b THEN a - b ELSE USIZE_MAX - (b - a) + 1
\* points.get(i): <<>> or <<p>>, i counted from 0
get(ps, i) == IF i >= 0 /\ i < Len(ps) THEN Some(ps[i + 1]) ELSE None

----------------------------------------------------------------------------
(* Inputs *)

Buttons == {"Left", "Right", "Other"}

GraphPointer ==
    { <<400, 100>>, <<400, 90>>, <<400, 84>>, <<1000, 60>>,
      <<0, 200>>, <<1610, 204>>, <<300, -20>> }

XyPointer ==
    { <<240, 220>>, <<256, 220>>, <<258, 220>>, <<500, 0>>, <<340, 120>> }

InitPoints ==
    { << <<0, 0>>, <<200, 50>>, <<500, 70>>, <<800, 0>> >>,
      << <<0, 0>>, <<200, 50>>, <<200, 60>>, <<201, 50>> >> }

InitRange == { <<0, 1>> }

InitPoint == { <<0, 0>> }

NoEvent ==
    [widget |-> Null, ev |-> "None", button |-> "None", pos |-> <<0, 0>>,
     pre_active |-> None, pre_dragging |-> FALSE, pre_len |-> 0,
     pre_state |-> "NoOp",
     pre_captured |-> Null, callbacks |-> <<>>, capture |-> FALSE,
     release |-> FALSE, emitted |-> <<>>]

ScriptOff == [phase |-> 0, k |-> 0, c |-> 0, ok |-> TRUE, end_state |-> "NoOp"]

\* MsegGraph::new
InitGraph ==
    /\ points \in InitPoints
    /\ range \in InitRange
    /\ active_point_id = None
    /\ is_dragging_point = FALSE
    /\ on_changing_point \in BOOLEAN
    /\ on_remove_point \in BOOLEAN
    /\ overflow_checks \in BOOLEAN
    /\ edits = 0

\* XyPad::new
InitXy ==
    /\ point \in InitPoint
    /\ state = "NoOp"
    /\ xy_on_changing_point \in BOOLEAN
    /\ event_queue = <<>>

NoTrip == [stage |-> "none", p |-> <<0, 0>>, range |-> <<0, 2>>,
           max |-> MaxDomain, ui |-> <<0, 0>>, back |-> <<0, 0>>]

\* the application holds one of the two widgets
Init ==
    /\ view \in {GraphEntity, XyEntity}
    /\ trip = NoTrip
    /\ IF view = GraphEntity
       THEN /\ InitGraph
            /\ point = <<0, 0>> /\ state = "NoOp"
            /\ xy_on_changing_point = FALSE /\ event_queue = <<>>
       ELSE /\ InitXy
            /\ points = <<>> /\ range = <<0, 1>>
            /\ active_point_id = None /\ is_dragging_point = FALSE
            /\ on_changing_point = FALSE /\ on_remove_point = FALSE
            /\ overflow_checks = FALSE /\ edits = 0
    /\ panicked = FALSE
    /\ captured = Null
    /\ last = NoEvent
    /\ script = ScriptOff

----------------------------------------------------------------------------
(* MsegGraph::event *)

GraphEvent(ev, button, pos) ==
    [NoEvent EXCEPT !.widget = GraphEntity, !.ev = ev, !.button = button,
                    !.pos = pos, !.pre_active = active_point_id,
                    !.pre_dragging = is_dragging_point,
                    !.pre_len = Len(points),
                    !.pre_captured = captured]

ui_points == [i \in 1..Len(points) |->
                 data_to_ui_pos_range(points[i], range, MaxDomain)]

\* the owner's handlers: overwrite element i, delete element i
OwnerChange(ps, i, v) ==
    IF i < Len(ps) THEN [ps EXCEPT ![i + 1] = v] ELSE ps
OwnerRemove(ps, i) ==
    IF i < Len(ps)
    THEN [j \in 1..(Len(ps) - 1) |-> IF j <= i THEN ps[j] ELSE ps[j + 1]]
    ELSE ps

\* variant: a press with no point hovered inserts a point
GraphMouseDownLeft_inserts ==
    IF is_some(active_point_id) THEN
       /\ captured' = capture(GraphEntity, captured)
       /\ is_dragging_point' = TRUE
       /\ last' = [GraphEvent("MouseDown", "Left", <<0, 0>>)
                     EXCEPT !.capture = TRUE]
       /\ UNCHANGED points
    ELSE
       /\ last' = [GraphEvent("MouseDown", "Left", <<0, 0>>)
                     EXCEPT !.callbacks = << [name |-> "on_insert_point",
                                              index |-> Len(points),
                                              v |-> <<0, 0>>] >>]
       /\ UNCHANGED <<captured, is_dragging_point, points>>

\* variant: the press starts a drag whether or not a point is hovered
GraphMouseDownLeft_unguarded ==
    /\ captured' = capture(GraphEntity, captured)
    /\ is_dragging_point' = TRUE
    /\ last' = [GraphEvent("MouseDown", "Left", <<0, 0>>)
                  EXCEPT !.capture = TRUE]
    /\ UNCHANGED points

\* variant: the press sets the dragging flag without taking the capture
GraphMouseDownLeft_no_capture ==
    IF is_some(active_point_id) THEN
       /\ is_dragging_point' = TRUE
       /\ last' = GraphEvent("MouseDown", "Left", <<0, 0>>)
       /\ UNCHANGED <<captured, points>>
    ELSE
       /\ last' = GraphEvent("MouseDown", "Left", <<0, 0>>)
       /\ UNCHANGED <<captured, is_dragging_point, points>>

GraphMouseDownLeft ==
    IF is_some(active_point_id) THEN
       /\ captured' = capture(GraphEntity, captured)
       /\ is_dragging_point' = TRUE
       /\ last' = [GraphEvent("MouseDown", "Left", <<0, 0>>)
                     EXCEPT !.capture = TRUE]
       /\ UNCHANGED points
    ELSE
       /\ last' = GraphEvent("MouseDown", "Left", <<0, 0>>)
       /\ UNCHANGED <<captured, is_dragging_point, points>>

\* variant: the right press releases whether or not a point is active
GraphMouseDownRight_unguarded ==
    /\ captured' = release(GraphEntity, captured)
    /\ is_dragging_point' = FALSE
    /\ IF is_some(active_point_id) /\ on_remove_point
       THEN /\ points' = OwnerRemove(points, unwrap(active_point_id))
            /\ last' = [GraphEvent("MouseDown", "Right", <<0, 0>>)
                          EXCEPT !.release = TRUE,
                                 !.callbacks = << [name |-> "on_remove_point",
                                                   index |-> unwrap(active_point_id),
                                                   v |-> <<0, 0>>] >>]
       ELSE /\ UNCHANGED points
            /\ last' = [GraphEvent("MouseDown", "Right", <<0, 0>>)
                          EXCEPT !.release = TRUE]

\* variant: the removal leaves the drag flag as it was
GraphMouseDownRight_keeps_drag ==
    IF is_some(active_point_id) THEN
       LET index == unwrap(active_point_id) IN
       /\ captured' = release(GraphEntity, captured)
       /\ UNCHANGED is_dragging_point
       /\ IF on_remove_point
          THEN /\ points' = OwnerRemove(points, index)
               /\ last' = [GraphEvent("MouseDown", "Right", <<0, 0>>)
                             EXCEPT !.release = TRUE,
                                    !.callbacks = << [name |-> "on_remove_point",
                                                      index |-> index,
                                                      v |-> <<0, 0>>] >>]
          ELSE /\ UNCHANGED points
               /\ last' = [GraphEvent("MouseDown", "Right", <<0, 0>>)
                             EXCEPT !.release = TRUE]
    ELSE
       /\ last' = GraphEvent("MouseDown", "Right", <<0, 0>>)
       /\ UNCHANGED <<captured, is_dragging_point, points>>

GraphMouseDownRight ==
    IF is_some(active_point_id) THEN
       LET index == unwrap(active_point_id) IN
       /\ captured' = release(GraphEntity, captured)
       /\ is_dragging_point' = FALSE
       /\ IF on_remove_point
          THEN /\ points' = OwnerRemove(points, index)
               /\ last' = [GraphEvent("MouseDown", "Right", <<0, 0>>)
                             EXCEPT !.release = TRUE,
                                    !.callbacks = << [name |-> "on_remove_point",
                                                      index |-> index,
                                                      v |-> <<0, 0>>] >>]
          ELSE /\ UNCHANGED points
               /\ last' = [GraphEvent("MouseDown", "Right", <<0, 0>>)
                             EXCEPT !.release = TRUE]
    ELSE
       /\ last' = GraphEvent("MouseDown", "Right", <<0, 0>>)
       /\ UNCHANGED <<captured, is_dragging_point, points>>

GraphMouseDown(button) ==
    /\ view = GraphEntity
    /\ ~panicked
    /\ IF button = "Left" THEN GraphMouseDownLeft
       ELSE IF button = "Right" THEN GraphMouseDownRight
       ELSE /\ last' = GraphEvent("MouseDown", button, <<0, 0>>)
            /\ UNCHANGED <<captured, is_dragging_point, points>>
    /\ UNCHANGED <<range, active_point_id, on_changing_point, on_remove_point,
                   overflow_checks, panicked, edits, xy_vars, script>>

\* variant: the button-up also drops the hovered point
GraphMouseUp_clears_hover(button) ==
    /\ view = GraphEntity
    /\ ~panicked
    /\ IF button = "Left" THEN
          /\ captured' = release(GraphEntity, captured)
          /\ is_dragging_point' = FALSE
          /\ active_point_id' = None
          /\ last' = [GraphEvent("MouseUp", button, <<0, 0>>)
                        EXCEPT !.release = TRUE]
       ELSE
          /\ last' = GraphEvent("MouseUp", button, <<0, 0>>)
          /\ UNCHANGED <<captured, is_dragging_point, active_point_id>>
    /\ UNCHANGED <<points, range, on_changing_point, on_remove_point,
                   overflow_checks, panicked, edits, xy_vars, script>>

\* variant: the button-up clears the drag flag but keeps the capture
GraphMouseUp_keeps_capture(button) ==
    /\ view = GraphEntity
    /\ ~panicked
    /\ IF button = "Left" THEN
          /\ is_dragging_point' = FALSE
          /\ last' = GraphEvent("MouseUp", button, <<0, 0>>)
          /\ UNCHANGED captured
       ELSE
          /\ last' = GraphEvent("MouseUp", button, <<0, 0>>)
          /\ UNCHANGED <<captured, is_dragging_point>>
    /\ UNCHANGED <<points, range, active_point_id, on_changing_point,
                   on_remove_point, overflow_checks, panicked, edits, xy_vars,
                   script>>

GraphMouseUp(button) ==
    /\ view = GraphEntity
    /\ ~panicked
    /\ IF button = "Left" THEN
          /\ captured' = release(GraphEntity, captured)
          /\ is_dragging_point' = FALSE
          /\ last' = [GraphEvent("MouseUp", button, <<0, 0>>)
                        EXCEPT !.release = TRUE]
       ELSE
          /\ last' = GraphEvent("MouseUp", button, <<0, 0>>)
          /\ UNCHANGED <<captured, is_dragging_point>>
    /\ UNCHANGED <<points, range, active_point_id, on_changing_point,
                   on_remove_point, overflow_checks, panicked, edits, xy_vars,
                   script>>

\* variant: the neighbours bound the candidate without MIN_RESOLUTION
DragCandidate_no_resolution(ps, active_id, current_pos, r, max) ==
    LET v0 == IF active_id # 0
              THEN ui_to_data_pos_range(current_pos, r, max)
              ELSE <<0, 0>>
        v1 == IF active_id = wrapping_sub(Len(ps), 1)
              THEN <<v0[1], 0>> ELSE v0
        rn == get(ps, active_id + 1)
        ln == get(ps, wrapping_sub(active_id, 1))
        right_bound == IF is_some(rn) THEN unwrap(rn)[1] ELSE max
        left_bound == IF is_some(ln) THEN unwrap(ln)[1] ELSE 0
    IN  clamp(v1, <<left_bound, 0>>, <<right_bound, DataUnit>>)

\* variant: the last point keeps the pointer's y
DragCandidate_no_pin(ps, active_id, current_pos, r, max) ==
    LET v0 == IF active_id # 0
              THEN ui_to_data_pos_range(current_pos, r, max)
              ELSE <<0, 0>>
        rn == get(ps, active_id + 1)
        ln == get(ps, wrapping_sub(active_id, 1))
        right_bound == (IF is_some(rn) THEN unwrap(rn)[1] ELSE max)
                          - MIN_RESOLUTION
        left_bound == (IF is_some(ln) THEN unwrap(ln)[1] ELSE 0)
                          + MIN_RESOLUTION
    IN  clamp(v0, <<left_bound, 0>>, <<right_bound, DataUnit>>)

\* the candidate passed to on_changing_point (usize arithmetic wrapping)
DragCandidate(ps, active_id, current_pos, r, max) ==
    LET v0 == IF active_id # 0
              THEN ui_to_data_pos_range(current_pos, r, max)
              ELSE <<0, 0>>
        v1 == IF active_id = wrapping_sub(Len(ps), 1)
              THEN <<v0[1], 0>> ELSE v0
        rn == get(ps, active_id + 1)
        ln == get(ps, wrapping_sub(active_id, 1))
        right_bound == (IF is_some(rn) THEN unwrap(rn)[1] ELSE max)
                          - MIN_RESOLUTION
        left_bound == (IF is_some(ln) THEN unwrap(ln)[1] ELSE 0)
                          + MIN_RESOLUTION
    IN  clamp(v1, <<left_bound, 0>>, <<right_bound, DataUnit>>)

\* the handler panics: unwrap of None, or usize overflow with checks on
DragPanics(ps, active) ==
    \/ ~is_some(active)
    \/ /\ overflow_checks
       /\ \/ Len(ps) = 0
          \/ unwrap(active) = 0

\* variant: a point at exactly HOVER_RADIUS is not hovered
filtered_points_exclusive(uis, current_pos) ==
    SelectSeq([i \in 1..Len(uis) |-> i - 1],
              LAMBDA id : distance_squared(uis[id + 1], current_pos)
                             < HOVER_RADIUS * HOVER_RADIUS)

\* ids of the points within HOVER_RADIUS, in index order
filtered_points(uis, current_pos) ==
    SelectSeq([i \in 1..Len(uis) |-> i - 1],
              LAMBDA id : distance_squared(uis[id + 1], current_pos)
                             <= HOVER_RADIUS * HOVER_RADIUS)

\* variant: an unstable sort, equal distances end in reverse index order
RECURSIVE insert_sorted_unstable(_, _, _, _)
insert_sorted_unstable(sorted, id, uis, current_pos) ==
    IF sorted = <<>> THEN <<id>>
    ELSE IF distance_squared(uis[Head(sorted) + 1], current_pos)
               < distance_squared(uis[id + 1], current_pos)
         THEN <<Head(sorted)>>
                 \o insert_sorted_unstable(Tail(sorted), id, uis, current_pos)
         ELSE <<id>> \o sorted

\* slice::sort_by (stable) on the distance to the pointer
RECURSIVE insert_sorted(_, _, _, _)
insert_sorted(sorted, id, uis, current_pos) ==
    IF sorted = <<>> THEN <<id>>
    ELSE IF distance_squared(uis[Head(sorted) + 1], current_pos)
               <= distance_squared(uis[id + 1], current_pos)
         THEN <<Head(sorted)>> \o insert_sorted(Tail(sorted), id, uis, current_pos)
         ELSE <<id>> \o sorted

RECURSIVE sort_by(_, _, _)
sort_by(ids, uis, current_pos) ==
    IF ids = <<>> THEN <<>>
    ELSE insert_sorted(sort_by(SubSeq(ids, 1, Len(ids) - 1), uis, current_pos),
                       ids[Len(ids)], uis, current_pos)

closest_point_id(uis, current_pos) ==
    LET sorted == sort_by(filtered_points(uis, current_pos), uis, current_pos)
    IN  IF sorted = <<>> THEN None ELSE Some(Head(sorted))

GraphMouseMove(current_pos) ==
    /\ view = GraphEntity
    /\ ~panicked
    /\ IF is_dragging_point THEN
          IF on_changing_point THEN
             IF DragPanics(points, active_point_id) THEN
                /\ panicked' = TRUE
                /\ last' = GraphEvent("MouseMove", "None", current_pos)
                /\ UNCHANGED <<points, active_point_id, edits>>
             ELSE
                LET active_id == unwrap(active_point_id)
                    new_v == DragCandidate(points, active_id, current_pos,
                                           range, MaxDomain)
                IN  /\ edits < MaxEdits
                    /\ edits' = edits + 1
                    /\ points' = OwnerChange(points, active_id, new_v)
                    /\ last' = [GraphEvent("MouseMove", "None", current_pos)
                                  EXCEPT !.callbacks =
                                      << [name |-> "on_changing_point",
                                          index |-> active_id,
                                          v |-> new_v] >>]
                    /\ UNCHANGED <<panicked, active_point_id>>
          ELSE
             /\ last' = GraphEvent("MouseMove", "None", current_pos)
             /\ UNCHANGED <<points, panicked, active_point_id, edits>>
       ELSE
          /\ active_point_id' = closest_point_id(ui_points, current_pos)
          /\ last' = GraphEvent("MouseMove", "None", current_pos)
          /\ UNCHANGED <<points, panicked, edits>>
    /\ UNCHANGED <<range, is_dragging_point, on_changing_point, on_remove_point,
                   overflow_checks, captured, xy_vars, script>>

----------------------------------------------------------------------------
(* XyPad::event *)

XyEvent(ev, button, pos) ==
    [NoEvent EXCEPT !.widget = XyEntity, !.ev = ev, !.button = button,
                    !.pos = pos, !.pre_state = state,
                    !.pre_captured = captured]

\* progress of the sequence MouseMove(near), MouseDown(Left),
\* k MouseMove, MouseUp(Left) started in NoOp; k is followed up to MaxMoves
ScriptStep(ev, button, near, cursor, fired, post_state) ==
    IF ev = "MouseMove" /\ script.phase \in {2, 3} THEN
       IF script.k < MaxMoves
       THEN [script EXCEPT !.phase = 3, !.k = @ + 1, !.c = @ + Len(fired),
                           !.ok = @ /\ Len(fired) = 1
                                      /\ fired[1].v = map_ui_point(cursor)]
       ELSE ScriptOff
    ELSE IF ev = "MouseMove" /\ state = "NoOp" /\ near THEN
       [ScriptOff EXCEPT !.phase = 1, !.c = Len(fired)]
    ELSE IF ev = "MouseDown" /\ button = "Left" /\ script.phase = 1 THEN
       [script EXCEPT !.phase = 2, !.c = @ + Len(fired)]
    ELSE IF ev = "MouseUp" /\ button = "Left" /\ script.phase = 3 THEN
       [script EXCEPT !.phase = 4, !.c = @ + Len(fired),
                      !.end_state = post_state]
    ELSE ScriptOff

UpdateState(s) == [name |-> "UpdateState", state |-> s]

XyMouseMove(cursor) ==
    LET ui_point == map_data_point(point)
        near == distance_squared(cursor, ui_point)
                    <= XY_HOVER_RADIUS * XY_HOVER_RADIUS
        emitted == IF near
                   THEN IF state = "NoOp"
                        THEN << UpdateState("Hovering") >> ELSE <<>>
                   ELSE IF state # "Dragging"
                        THEN << UpdateState("NoOp") >> ELSE <<>>
        fired == IF state = "Dragging" /\ xy_on_changing_point
                 THEN << [name |-> "on_changing_point", index |-> 0,
                          v |-> map_ui_point(cursor)] >>
                 ELSE <<>>
    IN  /\ view = XyEntity
        /\ ~panicked
        /\ Len(event_queue) + Len(emitted) <= MaxQueue
        /\ event_queue' = event_queue \o emitted
        /\ point' = IF fired # <<>> THEN fired[1].v ELSE point
        /\ last' = [XyEvent("MouseMove", "None", cursor)
                      EXCEPT !.callbacks = fired, !.emitted = emitted]
        /\ script' = ScriptStep("MouseMove", "None", near, cursor, fired, state)
        /\ UNCHANGED <<state, xy_on_changing_point, captured, panicked,
                       graph_vars>>

XyMouseDown(button) ==
    /\ view = XyEntity
    /\ ~panicked
    /\ IF button = "Left" THEN
          /\ captured' = capture(XyEntity, captured)
          /\ state' = IF state = "Hovering" THEN "Dragging" ELSE state
          /\ last' = [XyEvent("MouseDown", button, <<0, 0>>)
                        EXCEPT !.capture = TRUE]
       ELSE
          /\ last' = XyEvent("MouseDown", button, <<0, 0>>)
          /\ UNCHANGED <<captured, state>>
    /\ script' = ScriptStep("MouseDown", button, FALSE, <<0, 0>>, <<>>, state')
    /\ UNCHANGED <<point, xy_on_changing_point, event_queue, panicked,
                   graph_vars>>

XyMouseUp(button) ==
    /\ view = XyEntity
    /\ ~panicked
    /\ IF button = "Left" THEN
          /\ captured' = release(XyEntity, captured)
          /\ state' = IF state = "Dragging" THEN "Hovering" ELSE "NoOp"
          /\ last' = [XyEvent("MouseUp", button, <<0, 0>>)
                        EXCEPT !.release = TRUE]
       ELSE
          /\ last' = XyEvent("MouseUp", button, <<0, 0>>)
          /\ UNCHANGED <<captured, state>>
    /\ script' = ScriptStep("MouseUp", button, FALSE, <<0, 0>>, <<>>, state')
    /\ UNCHANGED <<point, xy_on_changing_point, event_queue, panicked,
                   graph_vars>>

\* delivery of the oldest emitted InternalEvent
XyUpdateState ==
    /\ view = XyEntity
    /\ ~panicked
    /\ event_queue # <<>>
    /\ state' = Head(event_queue).state
    /\ event_queue' = Tail(event_queue)
    /\ last' = XyEvent("UpdateState", "None", <<0, 0>>)
    /\ UNCHANGED <<point, xy_on_changing_point, captured, panicked,
                   graph_vars, script>>

----------------------------------------------------------------------------

GraphNext ==
    \/ \E button \in Buttons : GraphMouseDown(button)
    \/ \E button \in Buttons : GraphMouseUp(button)
    \/ \E pos \in GraphPointer : GraphMouseMove(pos)

XyNext ==
    \/ \E pos \in XyPointer : XyMouseMove(pos)
    \/ \E button \in Buttons : XyMouseDown(button)
    \/ \E button \in Buttons : XyMouseUp(button)
    \/ XyUpdateState

Next == GraphNext \/ XyNext

Spec == Init /\ [][Next]_vars

----------------------------------------------------------------------------
(* The coordinate mapping on its own: a data point inside the zoom range
   is mapped to the widget and back *)

MapRanges == { <<0, 1>>, <<1, 2>>, <<0, 2>> }
MapMax == { 400, 800 }
MapSteps == 4
MapY == { 0, 25, 50, 75, 100 }

MapX(r, max) ==
    { RangeStart(r, max) + (k * RangeSpan(r, max)) \div MapSteps :
         k \in 0..MapSteps }

InitMap ==
    /\ view = Null
    /\ \E r \in MapRanges, max \in MapMax :
          \E x \in MapX(r, max), y \in MapY :
             trip = [NoTrip EXCEPT !.stage = "data", !.p = <<x, y>>,
                                   !.range = r, !.max = max]
    /\ points = <<>> /\ range = <<0, 1>>
    /\ active_point_id = None /\ is_dragging_point = FALSE
    /\ on_changing_point = FALSE /\ on_remove_point = FALSE
    /\ overflow_checks = FALSE /\ edits = 0
    /\ point = <<0, 0>> /\ state = "NoOp"
    /\ xy_on_changing_point = FALSE /\ event_queue = <<>>
    /\ panicked = FALSE
    /\ captured = Null
    /\ last = NoEvent
    /\ script = ScriptOff

DataToUi ==
    /\ trip.stage = "data"
    /\ trip' = [trip EXCEPT !.stage = "ui",
                            !.ui = data_to_ui_pos_range(trip.p, trip.range,
                                                        trip.max)]
    /\ UNCHANGED <<view, points, range, active_point_id, is_dragging_point,
                   on_changing_point, on_remove_point, overflow_checks,
                   panicked, captured, point, state, xy_on_changing_point,
                   event_queue, edits, last, script>>

UiToData ==
    /\ trip.stage = "ui"
    /\ trip' = [trip EXCEPT !.stage = "back",
                            !.back = ui_to_data_pos_range(trip.ui, trip.range,
                                                          trip.max)]
    /\ UNCHANGED <<view, points, range, active_point_id, is_dragging_point,
                   on_changing_point, on_remove_point, overflow_checks,
                   panicked, captured, point, state, xy_on_changing_point,
                   event_queue, edits, last, script>>

MapNext == DataToUi \/ UiToData

SpecMap == InitMap /\ [][MapNext]_vars

----------------------------------------------------------------------------
(* Properties *)

GraphHandled(ev) == last.widget = GraphEntity /\ last.ev = ev
XyHandled(ev) == last.widget = XyEntity /\ last.ev = ev
DragFrame == GraphHandled("MouseMove") /\ last.pre_dragging
                /\ last.callbacks # <<>>
HoverFrame == GraphHandled("MouseMove") /\ ~last.pre_dragging

\* C1: whenever a pointer-move is handled while dragging with active index
\* 0, the value passed to on_changing_point is exactly (0, 0).
C1_FirstPointPinned ==
    (DragFrame /\ last.pre_active = Some(0))
        => last.callbacks[1].v = <<0, 0>>

\* C2: the xy pad calls capture() only when a MouseDown(Left) is handled
\* in state Hovering; handled in NoOp or Dragging it acquires no capture.
C2_CaptureOnlyFromHovering ==
    (last.widget = XyEntity /\ last.capture)
        => (last.ev = "MouseDown" /\ last.button = "Left"
            /\ last.pre_state = "Hovering")

\* C3: after a MouseUp(Left) handled by either widget, and after a
\* MouseDown(Right) handled by the graph while a point is active, the
\* widget does not hold pointer capture.
C3_ReleasedAfterUpOrRemoval ==
    /\ (last.ev = "MouseUp" /\ last.button = "Left")
          => captured # last.widget
    /\ (GraphHandled("MouseDown") /\ last.button = "Right"
          /\ is_some(last.pre_active))
          => captured # GraphEntity

\* a MouseUp(Left) handled by the graph while it held the capture
C3_Witness ==
    /\ GraphHandled("MouseUp") /\ last.button = "Left"
    /\ last.pre_captured = GraphEntity
    /\ captured = Null

\* C4: a widget never calls capture() while a capture it acquired is
\* still pending.
C4_NoCaptureWhilePending ==
    last.capture => last.pre_captured # last.widget

\* C5: the xy pad sequence MouseMove(near), MouseDown(Left), k >= 1
\* MouseMove, MouseUp(Left) started in NoOp with a handler registered ends
\* in Hovering with on_changing_point fired exactly k times, once per
\* intermediate move with the inverse mapping of that move's position.
C5_HoverPressDragRelease ==
    (script.phase = 4 /\ xy_on_changing_point)
        => /\ script.end_state = "Hovering"
           /\ script.c = script.k
           /\ script.ok

\* the pointer of the event handled last, in data space
PointerData == ui_to_data_pos_range(last.pos, range, MaxDomain)

\* C6: a pointer-move handled while dragging an interior index i passes
\* v with v.x the pointer's data x clamped to
\* [points[i-1].x + 0.01, points[i+1].x - 0.01] and v.y the pointer's data
\* y clamped to [0, 1].
C6_InteriorClamp ==
    DragFrame =>
        LET i == last.callbacks[1].index
            v == last.callbacks[1].v
        IN  (0 < i /\ i < Len(points) - 1) =>
               /\ v[1] = Min(Max(PointerData[1], points[i][1] + MIN_RESOLUTION),
                             points[i + 2][1] - MIN_RESOLUTION)
               /\ v[2] = Min(Max(PointerData[2], 0), DataUnit)

\* points x = {0, 2, 5, 8}, index 2 dragged to 8.05: the candidate is 7.99
C6_Witness ==
    /\ DragFrame
    /\ Len(points) = 4
    /\ points[2][1] = 200 /\ points[4][1] = 800
    /\ PointerData[1] = 805
    /\ last.callbacks[1].index = 2
    /\ last.callbacks[1].v[1] = 799

\* C7: a pointer-move handled while dragging the last index of a sequence
\* of length >= 2 passes v with v.y = 0 and v.x the pointer's data x
\* clamped to [points[last-1].x + 0.01, MaxDomain - 0.01].
C7_LastPointPinned ==
    DragFrame =>
        LET i == last.callbacks[1].index
            v == last.callbacks[1].v
        IN  (Len(points) >= 2 /\ i = Len(points) - 1) =>
               /\ v[2] = 0
               /\ v[1] = Min(Max(PointerData[1], points[i][1] + MIN_RESOLUTION),
                             MaxDomain - MIN_RESOLUTION)

\* the last point dragged with the pointer above the base line
C7_Witness ==
    /\ DragFrame
    /\ Len(points) >= 2
    /\ last.callbacks[1].index = Len(points) - 1
    /\ PointerData[2] > 0
    /\ last.callbacks[1].v[2] = 0

HoverDistance(i) == distance_squared(ui_points[i + 1], last.pos)
InRadius(i) == HoverDistance(i) <= HOVER_RADIUS * HOVER_RADIUS
PointIds == { i - 1 : i \in 1..Len(points) }

\* C8: after a pointer-move handled while not dragging with some point in
\* the hover radius, the active index is a point at minimal pixel distance
\* to the pointer, the lowest index among those at that distance.
C8_ClosestWins ==
    (HoverFrame /\ \E i \in PointIds : InRadius(i)) =>
        /\ is_some(active_point_id)
        /\ unwrap(active_point_id) \in PointIds
        /\ \A j \in PointIds :
              /\ HoverDistance(unwrap(active_point_id)) <= HoverDistance(j)
              /\ HoverDistance(j) = HoverDistance(unwrap(active_point_id))
                    => unwrap(active_point_id) <= j

\* two points at the same distance from the pointer
C8_Witness ==
    /\ HoverFrame
    /\ is_some(active_point_id)
    /\ \E j \in PointIds :
          /\ j # unwrap(active_point_id)
          /\ HoverDistance(j) = HoverDistance(unwrap(active_point_id))

\* C9: after a pointer-move handled while not dragging, the active index
\* is Some iff some point's squared pixel distance to the pointer is
\* <= 16^2; otherwise it is None whatever it was before.
C9_HoverRadiusInclusive ==
    HoverFrame =>
        (is_some(active_point_id) <=>
            \E i \in PointIds :
                distance_squared(ui_points[i + 1], last.pos) <= 16 * 16)

\* a point at exactly distance 16 is selected
C9_Witness ==
    /\ HoverFrame
    /\ is_some(active_point_id)
    /\ HoverDistance(unwrap(active_point_id)) = 16 * 16

\* C10: MouseDown(Right) handled while index i is active invokes
\* on_remove_point(i) exactly once (when registered) and no other
\* callback, releases the capture, leaves is_dragging_point false and the
\* active index i.
C10_Removal ==
    (GraphHandled("MouseDown") /\ last.button = "Right"
        /\ is_some(last.pre_active)) =>
        /\ last.callbacks =
              IF on_remove_point
              THEN << [name |-> "on_remove_point",
                       index |-> unwrap(last.pre_active), v |-> <<0, 0>>] >>
              ELSE <<>>
        /\ last.release
        /\ captured # GraphEntity
        /\ is_dragging_point = FALSE
        /\ active_point_id = last.pre_active

\* a right-click on the active point in the middle of a drag
C10_Witness ==
    /\ GraphHandled("MouseDown") /\ last.button = "Right"
    /\ last.pre_dragging
    /\ last.pre_captured = GraphEntity
    /\ Len(last.callbacks) = 1

\* C11: is_dragging_point implies that active_point_id is set; a drag
\* starts only from a MouseDown(Left) handled while a point is active, and
\* no event clears the active index while dragging.
C11_DragHasActivePoint ==
    /\ is_dragging_point => is_some(active_point_id)
    /\ (last.widget = GraphEntity /\ ~last.pre_dragging /\ is_dragging_point)
          => (last.ev = "MouseDown" /\ last.button = "Left"
              /\ is_some(last.pre_active))
    /\ (last.widget = GraphEntity /\ last.pre_dragging)
          => active_point_id = last.pre_active

\* a drag frame with the pointer far from every point
C11_Witness ==
    /\ GraphHandled("MouseMove") /\ last.pre_dragging
    /\ is_dragging_point
    /\ is_some(active_point_id)
    /\ \A i \in PointIds : ~InRadius(i)

\* C12: in every drag frame on an ascending sequence the candidate x lies
\* strictly between the x of the left neighbour and the x of the right
\* neighbour (0 and MaxDomain at the ends), also when the two neighbours
\* are closer than 2 * MIN_RESOLUTION.
C12_StrictlyBetweenNeighbours ==
    DragFrame =>
        LET i == last.callbacks[1].index
            v == last.callbacks[1].v
            left == IF i = 0 THEN 0 ELSE points[i][1]
            right == IF i + 1 < Len(points) THEN points[i + 2][1]
                     ELSE MaxDomain
        IN  i < Len(points) => (left < v[1] /\ v[1] < right)

\* C13: MouseDown(Right) handled while no point is active is a no-op: no
\* callback, no release(), active index and dragging flag unchanged.
C13_RightClickNoPoint ==
    (GraphHandled("MouseDown") /\ last.button = "Right"
        /\ ~is_some(last.pre_active)) =>
        /\ last.callbacks = <<>>
        /\ ~last.release /\ ~last.capture
        /\ captured = last.pre_captured
        /\ active_point_id = last.pre_active
        /\ is_dragging_point = last.pre_dragging
        /\ Len(points) = last.pre_len

\* a right press with nothing hovered on a graph that has points
C13_Witness ==
    /\ GraphHandled("MouseDown") /\ last.button = "Right"
    /\ ~is_some(last.pre_active)
    /\ Len(points) > 0

\* C14: MouseDown(Left) handled while no point is hovered changes nothing
\* (no capture, dragging stays false, active index stays None, no
\* callback), and on_insert_point is never invoked by any event.
C14_LeftClickNoPoint ==
    /\ (GraphHandled("MouseDown") /\ last.button = "Left"
          /\ ~is_some(last.pre_active)) =>
          /\ ~last.capture /\ ~last.release
          /\ captured = last.pre_captured
          /\ is_dragging_point = FALSE
          /\ active_point_id = None
          /\ last.callbacks = <<>>
          /\ Len(points) = last.pre_len
    /\ \A k \in 1..Len(last.callbacks) :
          last.callbacks[k].name # "on_insert_point"

\* a left press with nothing hovered on a graph that has points
C14_Witness ==
    /\ GraphHandled("MouseDown") /\ last.button = "Left"
    /\ ~is_some(last.pre_active)
    /\ Len(points) > 0

\* C15: for a zoom range [s, e] with 0 <= s < e <= 1, max domain m > 0 and
\* a point p with x in [s*m, e*m] and y in [0, 1],
\* ui_to_data_pos_range(data_to_ui_pos_range(p)) is p within 1e-4 (less
\* than one unit of the data grid, so the two are equal).
C15_RoundTrip ==
    trip.stage = "back" =>
        /\ 100 * (trip.back[1] - trip.p[1]) < 1
        /\ 100 * (trip.p[1] - trip.back[1]) < 1
        /\ 100 * (trip.back[2] - trip.p[2]) < 1
        /\ 100 * (trip.p[2] - trip.back[2]) < 1

\* a point inside the second half of the domain taken through and back
C15_Witness ==
    /\ trip.stage = "back"
    /\ trip.range = <<1, 2>>
    /\ trip.p = <<700, 25>>
    /\ trip.ui = <<600, 150>>

XyStateChange(from, to) ==
    last.widget = XyEntity /\ last.pre_state = from /\ state = to

\* C16: once the xy pad is Dragging it stays Dragging until a
\* MouseUp(Left) is handled, which moves it to Hovering; no pointer-move
\* and no UpdateState message delivered later takes it out of Dragging.
C16_DraggingUntilRelease ==
    (last.widget = XyEntity /\ last.pre_state = "Dragging") =>
        IF last.ev = "MouseUp" /\ last.button = "Left"
        THEN state = "Hovering"
        ELSE state = "Dragging"

\* C17: the xy pad changes state only NoOp -> Hovering (a move within the
\* radius), Hovering -> NoOp (a move beyond the radius, or MouseUp(Left)
\* while not Dragging), Hovering -> Dragging (MouseDown(Left)) and
\* Dragging -> Hovering (MouseUp(Left)); Dragging is never entered from
\* NoOp and a MouseDown(Left) in NoOp leaves NoOp.
C17_Transitions ==
    (last.widget = XyEntity /\ last.pre_state # state) =>
        \/ /\ XyStateChange("NoOp", "Hovering")
           /\ last.ev = "UpdateState"
        \/ /\ XyStateChange("Hovering", "NoOp")
           /\ \/ last.ev = "UpdateState"
              \/ last.ev = "MouseUp" /\ last.button = "Left"
        \/ /\ XyStateChange("Hovering", "Dragging")
           /\ last.ev = "MouseDown" /\ last.button = "Left"
        \/ /\ XyStateChange("Dragging", "Hovering")
           /\ last.ev = "MouseUp" /\ last.button = "Left"

GraphUpLeft == GraphHandled("MouseUp") /\ last.button = "Left"

\* C18: MouseUp(Left) handled by the graph in any state releases the
\* capture, leaves is_dragging_point false and the active index unchanged
\* and invokes no callback; handled twice in a row, the second changes
\* nothing.
C18_MouseUpLeft ==
    /\ [](GraphUpLeft =>
            /\ last.release
            /\ captured # GraphEntity
            /\ is_dragging_point = FALSE
            /\ active_point_id = last.pre_active
            /\ last.callbacks = <<>>
            /\ Len(points) = last.pre_len)
    /\ [][(GraphUpLeft /\ GraphUpLeft') =>
             UNCHANGED <<points, range, active_point_id, is_dragging_point,
                         captured, panicked, edits>>]_vars

\* a MouseUp(Left) that ends a drag of a hovered point
C18_Witness ==
    /\ GraphUpLeft
    /\ last.pre_dragging
    /\ last.pre_captured = GraphEntity
    /\ is_some(active_point_id)

\* C19: a pointer-move handled while dragging leaves the active index and
\* the dragging flag unchanged and, when a handler is registered, invokes
\* on_changing_point exactly once with the active index; a pointer-move
\* handled while not dragging invokes no callback.
C19_MoveFrame ==
    /\ (GraphHandled("MouseMove") /\ last.pre_dragging) =>
          /\ active_point_id = last.pre_active
          /\ is_dragging_point
          /\ on_changing_point =>
                /\ Len(last.callbacks) = 1
                /\ last.callbacks[1].name = "on_changing_point"
                /\ last.callbacks[1].index = unwrap(last.pre_active)
    /\ HoverFrame => last.callbacks = <<>>

\* C20: with an owner that applies every callback, every index passed to
\* on_changing_point or on_remove_point is a valid index of the points
\* sequence read by that handler.
C20_IndexInRange ==
    last.widget = GraphEntity =>
        \A k \in 1..Len(last.callbacks) :
            last.callbacks[k].index < last.pre_len

\* the events that start a drag and the events that end one
GraphStartsDrag ==
    /\ GraphHandled("MouseDown")
    /\ last.button = "Left"
    /\ is_some(last.pre_active)
GraphEndsDrag ==
    \/ GraphUpLeft
    \/ /\ GraphHandled("MouseDown")
       /\ last.button = "Right"
       /\ is_some(last.pre_active)

\* C21: after every event handled by the graph, the graph holds the
\* capture if and only if is_dragging_point is true; both are set by
\* MouseDown(Left) with an active point, both are cleared by MouseUp(Left)
\* and by MouseDown(Right) with an active point, and no other event
\* changes either.
C21_CaptureIffDragging ==
    view = GraphEntity =>
        /\ (captured = GraphEntity) <=> is_dragging_point
        /\ last.widget = GraphEntity =>
              /\ last.capture <=> GraphStartsDrag
              /\ last.release <=> GraphEndsDrag
              /\ GraphStartsDrag =>
                    (captured = GraphEntity /\ is_dragging_point)
              /\ GraphEndsDrag =>
                    (captured # GraphEntity /\ ~is_dragging_point)
              /\ (~GraphStartsDrag /\ ~GraphEndsDrag) =>
                    /\ captured = last.pre_captured
                    /\ is_dragging_point = last.pre_dragging

\* a right press on the active point that ends a drag holding the capture
C21_Witness ==
    /\ GraphHandled("MouseDown")
    /\ last.button = "Right"
    /\ last.pre_dragging
    /\ last.pre_captured = GraphEntity
    /\ captured = Null
    /\ ~is_dragging_point

====
